---- MODULE Spec2Model ----
(***************************************************************************)
(* Model of pdf2docx/common/Collection.py: an ordered group of boxed       *)
(* instances with an optional parent block, its mutation operations, its   *)
(* direction-aware sorts and the recursive grouping routine.               *)
(*                                                                         *)
(* Python indices are 0-based; sequences here are 1-based, so a Python     *)
(* index k is position k+1.  Index arguments (nth, idx) keep their Python  *)
(* values, negative ones included.                                         *)
(***************************************************************************)
EXTENDS Integers, Sequences, FiniteSets, TLC

VARIABLES
    instances,      \* self._instances
    parent,         \* self._parent: absent, or a block with an aggregate bbox
    passed,         \* history: bboxes of the non-empty instances passed to append/insert/extend/reset
    unions,         \* history: number of parent.union calls the last call made
    last,           \* the last call made on the collection and its arguments
    err,            \* the exception the last call raised, or "none"
    ret,            \* the value the last call returned
    fun,            \* group(): the caller's predicate, over pairs of bboxes
    pc,             \* group(): position in the routine
    i,              \* group(): loop variable of the loop at line 130
    counted_index,  \* group(): line 124
    groups,         \* group(): line 123, one index set per appended Collection
    group,          \* group(): the index set of the cluster being built, line 138
    stack           \* group(): the active calls of _group_instances, innermost last

vars == <<instances, parent, passed, unions, last, err, ret,
          fun, pc, i, counted_index, groups, group, stack>>

collVars == <<instances, parent, passed, unions, last, err, ret>>
groupVars == <<fun, pc, i, counted_index, groups, group, stack>>

----------------------------------------------------------------------------
(* Bounds *)

MaxLen == 3         \* longest instance list
MaxArg == 2         \* longest list passed to extend / reset

\* The interpreter's limit on nested calls, scaled to the lists of the model:
\* beyond any nesting that MaxLen instances can justify.
RecursionLimit == MaxLen + 2

----------------------------------------------------------------------------
(* Instances: a bbox, an optional text_direction attribute, a truth value *)

LEFT_RIGHT == "LEFT_RIGHT"
BOTTOM_TOP == "BOTTOM_TOP"
IGNORE     == "IGNORE"
NoAttr     == "no_attribute"    \* hasattr(instance, 'text_direction') is False

Rect(x0, y0, x1, y1) == [x0 |-> x0, y0 |-> y0, x1 |-> x1, y1 |-> y1]

\* Three well-formed rectangles on a descending stair: going down the page
\* (y grows) they move to the left (x shrinks).
RA == Rect(2, 0, 3, 1)
RB == Rect(1, 2, 2, 3)
RC == Rect(0, 4, 1, 5)
Rects == {RA, RB, RC}

NoRect == Rect(0, 0, 0, 0)      \* the empty rectangle of a fresh block

Instance(r, d, t) == [bbox |-> r, text_direction |-> d, truthy |-> t]

\* An empty/absent instance: `not bbox` is True.
EmptyInstance == Instance(NoRect, NoAttr, FALSE)

\* Instances held and passed under the mutation operations.
Instances == {Instance(r, LEFT_RIGHT, TRUE) : r \in {RA, RC}}

Args == Instances \cup {EmptyInstance}

\* Instances of the collections that are sorted: every rectangle with each
\* direction and without the attribute.
SortInstances ==
    {Instance(r, d, TRUE) : r \in Rects, d \in {LEFT_RIGHT, BOTTOM_TOP, NoAttr}}

SeqsUpTo(S, n) == UNION {[1..k -> S] : k \in 0..n}

\* Index arguments: every index of the longest list, and one step beyond on
\* both sides.
Indices == -(MaxLen + 1) .. (MaxLen + 1)

NoParent == [present |-> FALSE, bbox |-> NoRect]
Block(r) == [present |-> TRUE, bbox |-> r]

NoCall == [op |-> "none", nth |-> 0, bbox |-> EmptyInstance]
Call(op, nth, b) == [op |-> op, nth |-> nth, bbox |-> b]

\* None, the value of a call that returns nothing
NoValue == <<>>

----------------------------------------------------------------------------
(* Parent block: union(rect) *)

Min2(a, b) == IF a <= b THEN a ELSE b
Max2(a, b) == IF a >= b THEN a ELSE b

IsEmptyRect(r) == r.x1 <= r.x0 \/ r.y1 <= r.y0

Encloses(outer, inner) ==
    \/ IsEmptyRect(inner)
    \/ /\ outer.x0 <= inner.x0 /\ outer.y0 <= inner.y0
       /\ inner.x1 <= outer.x1 /\ inner.y1 <= outer.y1

\* The aggregator enlarges its own bounds to enclose the given rectangle.
union(p, r) ==
    IF IsEmptyRect(r) THEN p
    ELSE IF IsEmptyRect(p.bbox) THEN [p EXCEPT !.bbox = r]
    ELSE [p EXCEPT !.bbox = Rect(Min2(p.bbox.x0, r.x0), Min2(p.bbox.y0, r.y0),
                                 Max2(p.bbox.x1, r.x1), Max2(p.bbox.y1, r.y1))]

----------------------------------------------------------------------------
(* text_direction property, lines 40-47 *)

\* set(instance.text_direction for instance in self._instances)
DirectionSet(s) == {s[k].text_direction : k \in 1..Len(s)}

\* The comprehension at line 44 reads the attribute of every instance and
\* raises AttributeError at the first one that has none.
DirectionRaises(s) ==
    /\ Len(s) > 0
    /\ s[1].text_direction # NoAttr
    /\ \E k \in 1..Len(s) : s[k].text_direction = NoAttr

text_direction(s) ==
    IF Len(s) > 0 /\ s[1].text_direction # NoAttr
    THEN IF Cardinality(DirectionSet(s)) = 1
         THEN CHOOSE d \in DirectionSet(s) : TRUE
         ELSE IGNORE
    ELSE LEFT_RIGHT

----------------------------------------------------------------------------
(* Sorting, lines 77-94 *)

\* Python compares key tuples lexicographically.
TupleLess(a, b) ==
    \/ a[1] < b[1]
    \/ a[1] = b[1] /\ a[2] < b[2]
    \/ a[1] = b[1] /\ a[2] = b[2] /\ a[3] < b[3]

\* the keys of sort_in_line_order used for the reading order
ReadingKeyOfLine(d, e) ==
    IF d = BOTTOM_TOP THEN <<e.bbox.y1, e.bbox.x0, e.bbox.y0>>
    ELSE <<e.bbox.x0, e.bbox.y0, e.bbox.x1>>

ReadingKey(d, e) ==
    IF d = BOTTOM_TOP THEN <<e.bbox.x0, e.bbox.y1, e.bbox.y0>>
    ELSE <<e.bbox.y0, e.bbox.x0, e.bbox.x1>>

LineKey(d, e) ==
    IF d = BOTTOM_TOP THEN <<e.bbox.y1, e.bbox.x0, e.bbox.y0>>
    ELSE <<e.bbox.x0, e.bbox.y0, e.bbox.x1>>

\* list.sort is stable: an instance goes after every instance whose key is
\* not greater than its own.
RECURSIVE InsertSorted(_, _, _)
InsertSorted(s, e, key) ==
    IF s = <<>> THEN <<e>>
    ELSE IF TupleLess(key[e], key[s[Len(s)]])
         THEN Append(InsertSorted(SubSeq(s, 1, Len(s) - 1), e, key), s[Len(s)])
         ELSE Append(s, e)

RECURSIVE SortBy(_, _)
SortBy(s, key) ==
    IF s = <<>> THEN <<>>
    ELSE InsertSorted(SortBy(SubSeq(s, 1, Len(s) - 1), key), s[Len(s)], key)

ReadingSorted(s) ==
    SortBy(s, [e \in {s[k] : k \in 1..Len(s)} |-> ReadingKey(text_direction(s), e)])

LineSorted(s) ==
    SortBy(s, [e \in {s[k] : k \in 1..Len(s)} |-> LineKey(text_direction(s), e)])

----------------------------------------------------------------------------
(* list.insert and list indexing *)

\* list.insert(nth, x) never raises: a negative nth counts from the end and
\* the result is clamped to 0 .. len.  The value is the number of instances
\* that stay in front of the new one.
\* an index beyond either end sent to the front
InsertPosFront(n, nth) ==
    IF nth < -n \/ nth > n THEN 0 ELSE IF nth < 0 THEN nth + n ELSE nth

InsertPos(n, nth) ==
    IF nth < 0 THEN Max2(nth + n, 0) ELSE Min2(nth, n)

ListInsert(s, nth, e) ==
    SubSeq(s, 1, InsertPos(Len(s), nth)) \o <<e>>
        \o SubSeq(s, InsertPos(Len(s), nth) + 1, Len(s))

\* self._instances[idx] raises IndexError outside -len .. len-1.
IndexInRange(n, idx) == -n <= idx /\ idx < n

ListGet(s, idx) == IF idx < 0 THEN s[idx + Len(s) + 1] ELSE s[idx + 1]

----------------------------------------------------------------------------
(* Mutation operations *)

\* append without the test at line 57
AfterAppendUnchecked(st, bbox) ==
    [instances |-> Append(st.instances, bbox),
     parent    |-> IF st.parent.present THEN union(st.parent, bbox.bbox) ELSE st.parent,
     passed    |-> st.passed \cup {bbox.bbox},
     unions    |-> IF st.parent.present THEN st.unions + 1 ELSE st.unions]

\* lines 57-60: the collection after append(bbox)
AfterAppend(st, bbox) ==
    IF ~bbox.truthy THEN st
    ELSE [instances |-> Append(st.instances, bbox),
          parent    |-> IF st.parent.present THEN union(st.parent, bbox.bbox) ELSE st.parent,
          passed    |-> st.passed \cup {bbox.bbox},
          unions    |-> IF st.parent.present THEN st.unions + 1 ELSE st.unions]

\* lines 65-66: append each in order
RECURSIVE AfterExtend(_, _)
AfterExtend(st, bboxes) ==
    IF bboxes = <<>> THEN st
    ELSE AfterExtend(AfterAppend(st, Head(bboxes)), Tail(bboxes))

\* insert without lines 73-74
AfterInsertNoUnion(st, nth, bbox) ==
    IF ~bbox.truthy THEN st
    ELSE [instances |-> ListInsert(st.instances, nth, bbox),
          parent    |-> st.parent,
          passed    |-> st.passed \cup {bbox.bbox},
          unions    |-> st.unions]

\* lines 71-74: the collection after insert(nth, bbox)
AfterInsert(st, nth, bbox) ==
    IF ~bbox.truthy THEN st
    ELSE [instances |-> ListInsert(st.instances, nth, bbox),
          parent    |-> IF st.parent.present THEN union(st.parent, bbox.bbox) ELSE st.parent,
          passed    |-> st.passed \cup {bbox.bbox},
          unions    |-> IF st.parent.present THEN st.unions + 1 ELSE st.unions]

\* The collection as a call finds it; the call has made no union call yet.
State == [instances |-> instances, parent |-> parent, passed |-> passed, unions |-> 0]

Truthy(s) == Len(SelectSeq(s, LAMBDA e : e.truthy))

append(bbox) ==
    /\ Len(instances) + (IF bbox.truthy THEN 1 ELSE 0) <= MaxLen
    /\ instances' = AfterAppend(State, bbox).instances
    /\ parent' = AfterAppend(State, bbox).parent
    /\ passed' = AfterAppend(State, bbox).passed
    /\ unions' = AfterAppend(State, bbox).unions
    /\ last' = Call("append", 0, bbox)
    /\ err' = "none"
    /\ ret' = NoValue
    /\ UNCHANGED groupVars

extend(bboxes) ==
    /\ Len(instances) + Truthy(bboxes) <= MaxLen
    /\ instances' = AfterExtend(State, bboxes).instances
    /\ parent' = AfterExtend(State, bboxes).parent
    /\ passed' = AfterExtend(State, bboxes).passed
    /\ unions' = AfterExtend(State, bboxes).unions
    /\ last' = Call("extend", Len(bboxes), EmptyInstance)
    /\ err' = "none"
    /\ ret' = NoValue
    /\ UNCHANGED groupVars

insert(nth, bbox) ==
    /\ Len(instances) + (IF bbox.truthy THEN 1 ELSE 0) <= MaxLen
    /\ instances' = AfterInsert(State, nth, bbox).instances
    /\ parent' = AfterInsert(State, nth, bbox).parent
    /\ passed' = AfterInsert(State, nth, bbox).passed
    /\ unions' = AfterInsert(State, nth, bbox).unions
    /\ last' = Call("insert", nth, bbox)
    /\ err' = "none"
    /\ ret' = NoValue
    /\ UNCHANGED groupVars

\* lines 99-101: clear, extend, return self
reset(bboxes) ==
    /\ instances' = AfterExtend([State EXCEPT !.instances = <<>>], bboxes).instances
    /\ parent' = AfterExtend([State EXCEPT !.instances = <<>>], bboxes).parent
    /\ passed' = AfterExtend([State EXCEPT !.instances = <<>>], bboxes).passed
    /\ unions' = AfterExtend([State EXCEPT !.instances = <<>>], bboxes).unions
    /\ last' = Call("reset", Len(bboxes), EmptyInstance)
    /\ err' = "none"
    /\ ret' = "self"
    /\ UNCHANGED groupVars

\* lines 22-29
getitem(idx) ==
    /\ IF IndexInRange(Len(instances), idx)
       THEN err' = "none" /\ ret' = ListGet(instances, idx)
       ELSE err' = "IndexError" /\ ret' = NoValue
    /\ last' = Call("getitem", idx, EmptyInstance)
    /\ unions' = 0
    /\ UNCHANGED <<instances, parent, passed>>
    /\ UNCHANGED groupVars

----------------------------------------------------------------------------
(* The collection under its mutation operations *)

\* No predicate passed yet.
NoFun == [p \in Rects \X Rects |-> FALSE]

GroupIdle ==
    /\ fun = NoFun
    /\ pc = "idle"
    /\ i = 0
    /\ counted_index = {}
    /\ groups = <<>>
    /\ group = {}
    /\ stack = <<>>

\* lines 16-19: Collection(instances, parent); the constructor makes no
\* union call.
Init ==
    /\ instances \in SeqsUpTo(Instances, 1)
    /\ parent \in {NoParent, Block(NoRect)}
    /\ passed = {}
    /\ unions = 0
    /\ last = NoCall
    /\ err = "none"
    /\ ret = NoValue
    /\ GroupIdle

Next ==
    \/ \E bbox \in Args : append(bbox)
    \/ \E bboxes \in SeqsUpTo(Args, MaxArg) : extend(bboxes)
    \/ \E nth \in Indices, bbox \in Args : insert(nth, bbox)
    \/ \E bboxes \in SeqsUpTo(Args, MaxArg) : reset(bboxes)
    \/ \E idx \in Indices : getitem(idx)

Spec == Init /\ [][Next]_vars

----------------------------------------------------------------------------
(* A collection built from a list of instances, then queried and sorted *)

\* lines 40-47, read by a caller
get_text_direction ==
    /\ IF DirectionRaises(instances)
       THEN err' = "AttributeError" /\ ret' = NoValue
       ELSE err' = "none" /\ ret' = text_direction(instances)
    /\ last' = Call("text_direction", 0, EmptyInstance)
    /\ unions' = 0
    /\ UNCHANGED <<instances, parent, passed>>
    /\ UNCHANGED groupVars

\* lines 77-84
sort_in_reading_order ==
    /\ IF DirectionRaises(instances)
       THEN err' = "AttributeError" /\ instances' = instances
       ELSE err' = "none" /\ instances' = ReadingSorted(instances)
    /\ ret' = NoValue
    /\ last' = Call("sort_in_reading_order", 0, EmptyInstance)
    /\ unions' = 0
    /\ UNCHANGED <<parent, passed>>
    /\ UNCHANGED groupVars

\* lines 87-94
sort_in_line_order ==
    /\ IF DirectionRaises(instances)
       THEN err' = "AttributeError" /\ instances' = instances
       ELSE err' = "none" /\ instances' = LineSorted(instances)
    /\ ret' = NoValue
    /\ last' = Call("sort_in_line_order", 0, EmptyInstance)
    /\ unions' = 0
    /\ UNCHANGED <<parent, passed>>
    /\ UNCHANGED groupVars

SortInit ==
    /\ instances \in SeqsUpTo(SortInstances, MaxLen)
    /\ parent = NoParent
    /\ passed = {}
    /\ unions = 0
    /\ last = NoCall
    /\ err = "none"
    /\ ret = NoValue
    /\ GroupIdle

SortNext ==
    \/ get_text_direction
    \/ sort_in_reading_order
    \/ sort_in_line_order

SortSpec == SortInit /\ [][SortNext]_vars

----------------------------------------------------------------------------
(* group(fun), lines 109-177, one step per loop iteration, call and return *)

\* Instances of the collections that are grouped: every rectangle as
\* BOTTOM_TOP and two of them as LEFT_RIGHT, so that lists of each of the
\* three resolved directions are among the collections.
GroupInstances ==
    {Instance(r, BOTTOM_TOP, TRUE) : r \in Rects}
        \cup {Instance(r, LEFT_RIGHT, TRUE) : r \in {RA, RB}}

BBoxesOf(s) == {s[k].bbox : k \in 1..Len(s)}

\* The caller's predicates: every boolean function of two bboxes.  The values
\* on bboxes that are not in the collection are never read and are fixed.
Predicates(s) ==
    {f \in [Rects \X Rects -> BOOLEAN] :
        \A p \in Rects \X Rects : f[p] => (p[1] \in BBoxesOf(s) /\ p[2] \in BBoxesOf(s))}

\* the test at line 170 negated
RelatedNegated(bbox, target) == ~fun[<<bbox.bbox, target.bbox>>]

\* line 170: fun(bbox.bbox, target.bbox)
Related(bbox, target) == fun[<<bbox.bbox, target.bbox>>]

\* the test at line 166 made against the indices of the finished clusters
AlreadyCounted(k) == k \in counted_index

\* line 166: if i in group
AlreadyGrouped(k) == k \in group

\* line 176
BelowReference(bbox, target) == target.bbox.y0 > bbox.bbox.y1

\* One active call of _group_instances: its reference bbox and the loop
\* variable of the loop at line 163.
Frame(bbox, k) == [bbox |-> bbox, i |-> k]

Top == stack[Len(stack)]

\* A call returns: its caller resumes the loop at line 163 with the next i.
Return(st) ==
    IF Len(st) = 1 THEN <<>>
    ELSE [SubSeq(st, 1, Len(st) - 1) EXCEPT ![Len(st) - 1].i = @ + 1]

\* lines 109, 123-127: the call group(f)
GroupBegin(f) ==
    /\ pc = "begin"
    /\ fun' = f
    /\ IF DirectionRaises(instances)
       THEN /\ err' = "AttributeError"
            /\ pc' = "raised"
            /\ UNCHANGED instances
       ELSE /\ err' = "none"
            /\ pc' = "outer"
            /\ instances' = ReadingSorted(instances)
    /\ groups' = <<>>
    /\ counted_index' = {}
    /\ i' = 1
    /\ UNCHANGED <<parent, passed, unions, last, ret, group, stack>>

\* lines 133-134
OuterSkip ==
    /\ pc = "outer"
    /\ i <= Len(instances)
    /\ i \in counted_index
    /\ i' = i + 1
    /\ UNCHANGED <<collVars, fun, pc, counted_index, groups, group, stack>>

\* lines 137-141: seed a cluster and call _group_instances
OuterSeed ==
    /\ pc = "outer"
    /\ i <= Len(instances)
    /\ i \notin counted_index
    /\ group' = {i}
    /\ stack' = <<Frame(instances[i], 1)>>
    /\ pc' = "scan"
    /\ UNCHANGED <<collVars, fun, i, counted_index, groups>>

\* line 166
ScanSkip ==
    /\ pc = "scan" /\ stack # <<>>
    /\ Top.i <= Len(instances)
    /\ AlreadyGrouped(Top.i)
    /\ stack' = [stack EXCEPT ![Len(stack)].i = @ + 1]
    /\ UNCHANGED <<collVars, fun, pc, i, counted_index, groups, group>>

\* lines 169-172: absorb the target and recurse with it as the reference
ScanAbsorb ==
    /\ pc = "scan" /\ stack # <<>>
    /\ Top.i <= Len(instances)
    /\ ~AlreadyGrouped(Top.i)
    /\ Related(Top.bbox, instances[Top.i])
    /\ Len(stack) < RecursionLimit
    /\ group' = group \cup {Top.i}
    /\ stack' = Append(stack, Frame(instances[Top.i], 1))
    /\ UNCHANGED <<collVars, fun, pc, i, counted_index, groups>>

\* lines 175-176, the condition at 176 false
ScanPass ==
    /\ pc = "scan" /\ stack # <<>>
    /\ Top.i <= Len(instances)
    /\ ~AlreadyGrouped(Top.i)
    /\ ~Related(Top.bbox, instances[Top.i])
    /\ ~BelowReference(Top.bbox, instances[Top.i])
    /\ stack' = [stack EXCEPT ![Len(stack)].i = @ + 1]
    /\ UNCHANGED <<collVars, fun, pc, i, counted_index, groups, group>>

\* lines 175-177: break, and the call returns
ScanBreak ==
    /\ pc = "scan" /\ stack # <<>>
    /\ Top.i <= Len(instances)
    /\ ~AlreadyGrouped(Top.i)
    /\ ~Related(Top.bbox, instances[Top.i])
    /\ BelowReference(Top.bbox, instances[Top.i])
    /\ stack' = Return(stack)
    /\ UNCHANGED <<collVars, fun, pc, i, counted_index, groups, group>>

\* line 163 exhausted: the call returns
ScanEnd ==
    /\ pc = "scan" /\ stack # <<>>
    /\ Top.i > Len(instances)
    /\ stack' = Return(stack)
    /\ UNCHANGED <<collVars, fun, pc, i, counted_index, groups, group>>

\* lines 144-149: the call at line 141 has returned
Collect ==
    /\ pc = "scan" /\ stack = <<>>
    /\ counted_index' = counted_index \cup group
    /\ groups' = Append(groups, group)
    /\ i' = i + 1
    /\ pc' = "outer"
    /\ UNCHANGED <<collVars, fun, group, stack>>

\* line 151
GroupReturn ==
    /\ pc = "outer"
    /\ i > Len(instances)
    /\ pc' = "done"
    /\ ret' = groups
    /\ UNCHANGED <<instances, parent, passed, unions, last, err, fun, i, counted_index, groups, group, stack>>

GroupInit ==
    /\ instances \in SeqsUpTo(GroupInstances, MaxLen)
    /\ fun = NoFun
    /\ parent = NoParent
    /\ passed = {}
    /\ unions = 0
    /\ last = Call("group", 0, EmptyInstance)
    /\ err = "none"
    /\ ret = NoValue
    /\ pc = "begin"
    /\ i = 0
    /\ counted_index = {}
    /\ groups = <<>>
    /\ group = {}
    /\ stack = <<>>

GroupNext ==
    \/ pc = "begin" /\ \E f \in Predicates(instances) : GroupBegin(f)
    \/ OuterSkip
    \/ OuterSeed
    \/ ScanSkip
    \/ ScanAbsorb
    \/ ScanPass
    \/ ScanBreak
    \/ ScanEnd
    \/ Collect
    \/ GroupReturn

GroupSpec == GroupInit /\ [][GroupNext]_vars

----------------------------------------------------------------------------
(* Properties of the mutation operations, under Spec *)

\* The step is a call of op.  Every call records itself in last, and a call
\* that leaves every variable as it was is a stuttering step.
Called(op) == last'.op = op

\* An index that list positions 0 .. n do not cover, from either end.
OutOfBounds(n, nth) == nth > n \/ nth < -n

\* C4: with a parent attached, the parent's bbox encloses the bbox of every
\* non-empty instance passed so far to append, insert, extend or reset,
\* those that a later reset removed included, and no step shrinks it.
ParentEnclosesPassed ==
    /\ [](parent.present => \A r \in passed : Encloses(parent.bbox, r))
    /\ [][parent.present => Encloses(parent'.bbox, parent.bbox)]_vars

\* A reset has removed an instance that was passed earlier; the parent still
\* encloses it.
ParentEnclosesPassedWitness ==
    /\ parent.present
    /\ last.op = "reset"
    /\ instances # <<>>
    /\ \E r \in passed : r \notin {instances[k].bbox : k \in 1..Len(instances)}
    /\ Cardinality(passed) = 2

\* C5 as stated: insert of a non-empty instance at an index out of bounds
\* raises IndexError and leaves the list and the parent's bbox as they were.
InsertOutOfBoundsRaises ==
    [][(Called("insert") /\ last'.bbox.truthy /\ OutOfBounds(Len(instances), last'.nth))
        => (err' = "IndexError" /\ instances' = instances /\ parent' = parent)]_vars

\* C5 amended: insert of a non-empty instance at an index out of bounds
\* raises nothing; the instance goes to the end when the index is beyond the
\* end and to the front when it is before the front, and the parent, when
\* attached, gets one union call and encloses the instance.
InsertOutOfBoundsClamps ==
    [][(Called("insert") /\ last'.bbox.truthy /\ OutOfBounds(Len(instances), last'.nth))
        => /\ err' = "none"
           /\ instances' = IF last'.nth > 0 THEN instances \o <<last'.bbox>>
                           ELSE <<last'.bbox>> \o instances
           /\ parent.present => (unions' = 1 /\ Encloses(parent'.bbox, last'.bbox.bbox))
           /\ ~parent.present => (unions' = 0 /\ parent' = parent)]_vars

\* An insert beyond the end of a non-empty list has put the instance last.
InsertOutOfBoundsWitness ==
    /\ last.op = "insert"
    /\ last.bbox.truthy
    /\ Len(instances) >= 2
    /\ last.nth > Len(instances) - 1
    /\ instances[Len(instances)] = last.bbox
    /\ instances[1] # last.bbox
    /\ parent.present

\* C9: append and insert of an empty instance change nothing: same list, no
\* union call, same parent bbox, no exception, whatever the index.
EmptyIsNoOp ==
    [][((Called("append") \/ Called("insert")) /\ ~last'.bbox.truthy)
        => /\ instances' = instances
           /\ unions' = 0
           /\ parent' = parent
           /\ err' = "none"]_vars

\* An empty instance was inserted at an index out of bounds of a non-empty
\* list with a parent attached.
EmptyIsNoOpWitness ==
    /\ last.op = "insert"
    /\ ~last.bbox.truthy
    /\ instances # <<>>
    /\ OutOfBounds(Len(instances), last.nth)
    /\ parent.present
    /\ ~IsEmptyRect(parent.bbox)

----------------------------------------------------------------------------
(* Properties of direction resolution and sorting, under SortSpec *)

\* The directions that the instances exposing one have.
DirectionsPresent(s) ==
    {s[k].text_direction : k \in {j \in 1..Len(s) : s[j].text_direction # NoAttr}}

AllExpose(s) == \A k \in 1..Len(s) : s[k].text_direction # NoAttr

\* C6 as stated: the resolved direction is LEFT_RIGHT when no instance
\* exposes a direction (or there is none), the shared direction when every
\* instance exposes the same one, and IGNORE when two distinct directions
\* are present anywhere in the list.
DirectionResolution ==
    last.op = "text_direction" =>
        /\ DirectionsPresent(instances) = {} => (err = "none" /\ ret = LEFT_RIGHT)
        /\ (AllExpose(instances) /\ Cardinality(DirectionsPresent(instances)) = 1)
              => (err = "none" /\ {ret} = DirectionsPresent(instances))
        /\ Cardinality(DirectionsPresent(instances)) >= 2 => (err = "none" /\ ret = IGNORE)

Count(s, e) == Cardinality({k \in 1..Len(s) : s[k] = e})

IsPermutation(s, t) ==
    /\ Len(s) = Len(t)
    /\ \A k \in 1..Len(s) : Count(s, s[k]) = Count(t, s[k])

\* Non-decreasing in (x0, y1, y0) for BOTTOM_TOP and in (y0, x0, x1) otherwise.
InReadingOrder(s, d) ==
    \A j, k \in 1..Len(s) : j < k =>
        IF d = BOTTOM_TOP
        THEN ~TupleLess(<<s[k].bbox.x0, s[k].bbox.y1, s[k].bbox.y0>>,
                        <<s[j].bbox.x0, s[j].bbox.y1, s[j].bbox.y0>>)
        ELSE ~TupleLess(<<s[k].bbox.y0, s[k].bbox.x0, s[k].bbox.x1>>,
                        <<s[j].bbox.y0, s[j].bbox.x0, s[j].bbox.x1>>)

----------------------------------------------------------------------------
(* Properties of group(fun), under GroupSpec and FairGroupSpec *)

Positions == 1..Len(instances)

\* related(a, b), for the instances at two positions of the sorted list
Directed == {p \in Positions \X Positions :
                fun[<<instances[p[1]].bbox, instances[p[2]].bbox>>]}

\* related(a, b) or related(b, a)
Undirected == Directed \cup {<<p[2], p[1]>> : p \in Directed}

\* The positions that a chain of edges of E reaches from those of S.
RECURSIVE Reach(_, _)
Reach(S, E) ==
    LET T == S \cup {b \in Positions : \E a \in S : <<a, b>> \in E}
    IN  IF T = S THEN S ELSE Reach(T, E)

ClustersOf(k) == {j \in 1..Len(groups) : k \in groups[j]}

\* C1 as stated: the returned clusters partition the instances, each
\* instance being in exactly one cluster.
GroupsPartition ==
    pc = "done" => \A k \in Positions : Cardinality(ClustersOf(k)) = 1

\* Two instances in different clusters: each is in a cluster and no cluster
\* has both.
Apart(a, b) ==
    /\ ClustersOf(a) # {}
    /\ ClustersOf(b) # {}
    /\ ClustersOf(a) \cap ClustersOf(b) = {}

\* C2 as stated: no chain of related instances joins two instances that are
\* in different returned clusters.
GroupsMaximal ==
    pc = "done" => \A a, b \in Positions : Apart(a, b) => b \notin Reach({a}, Undirected)

\* C3: in every cluster, finished or being built, any two members are joined
\* by a chain of related instances of the collection; and the cluster has a
\* member from which a chain of accepted pairs related(reference, member),
\* all inside the cluster, leads to every other member.
GroupsConnected ==
    LET directed == Directed
        undirected == Undirected
    IN  \A G \in {groups[j] : j \in 1..Len(groups)} \cup {group} :
            /\ \A a \in G : G \subseteq Reach({a}, undirected)
            /\ G # {} => \E seed \in G : Reach({seed}, directed \cap (G \X G)) = G

\* A returned cluster of three instances, two of which are related in
\* neither direction and are joined through the third only.
GroupsConnectedWitness ==
    /\ pc = "done"
    /\ \E j \in 1..Len(groups) :
          /\ Cardinality(groups[j]) >= 3
          /\ \E a, b \in groups[j] : a # b /\ <<a, b>> \notin Undirected

Least(S) == CHOOSE k \in S : \A m \in S : k <= m

\* C8 as stated: of two returned clusters, the one returned first has its
\* first member, in the sorted list, before the first member of the other.
GroupsInSeedOrder ==
    pc = "done" =>
        \A j, k \in 1..Len(groups) : j < k => Least(groups[j]) < Least(groups[k])

RECURSIVE ScanStepsLeft(_)
ScanStepsLeft(st) ==
    IF st = <<>> THEN 0
    ELSE (Len(instances) + 2 - st[Len(st)].i) + ScanStepsLeft(SubSeq(st, 1, Len(st) - 1))

\* A bound on the steps that group() still has to take: every active call
\* has the rest of its loop to run and to return, every instance outside the
\* cluster can be absorbed once and start one call, and every position from
\* i on can seed one cluster.
StepsLeft ==
    LET n == Len(instances)
        perSeed == (n + 2) * (n + 2)
    IN  CASE pc = "begin" -> 2 + (n + 1) * perSeed
          [] pc = "outer" -> 1 + (n + 1 - i) * perSeed
          [] pc = "scan"  -> 2 + (n - i) * perSeed
                               + (n - Cardinality(group)) * (n + 2) + ScanStepsLeft(stack)
          [] OTHER        -> 0

\* C10: group() returns: until it has, it always has a step to take and
\* every step lowers StepsLeft, which is never negative.  Meanwhile the calls
\* of _group_instances nested for one seed are never more than the members
\* of the cluster being built, those never more than the instances, and the
\* clusters never more than the instances.
GroupTerminates ==
    /\ [](/\ Len(stack) <= Cardinality(group)
          /\ Cardinality(group) <= Len(instances)
          /\ Len(groups) <= Len(instances)
          /\ StepsLeft >= 0
          /\ pc # "done" => ENABLED GroupNext)
    /\ [][StepsLeft' < StepsLeft]_vars

\* Every instance of a list of three is the reference of an active call: the
\* deepest nesting there can be, and the predicate holds of a pair of
\* instances in both directions.
GroupTerminatesWitness ==
    /\ pc = "scan"
    /\ Len(instances) >= 3
    /\ Len(stack) = Len(instances)
    /\ \E p \in Directed : p[1] # p[2] /\ <<p[2], p[1]>> \in Directed

====
